---------------------------- MODULE Spec2Model ----------------------------
(***************************************************************************)
(* The LightCurve container of the object-oriented programming notebook    *)
(* (src/unnamed/part_000, final class definition at lines 393-469).        *)
(*                                                                         *)
(* numpy arrays are objects on a heap; a LightCurve stores references to   *)
(* them.  float64 values are modelled by exact rationals <<n, d>> (d > 0,  *)
(* lowest terms) extended with the IEEE specials <<1,0>> (+inf),           *)
(* <<-1,0>> (-inf) and <<0,0>> (nan); rounding, overflow to infinity and   *)
(* the sign of zero are not modelled.                                      *)
(***************************************************************************)
EXTENDS Integers, Sequences, FiniteSets, TLC

(***************************************************************************)
(* Bounds of the model.                                                    *)
(***************************************************************************)
MaxCleans == 2
MaxOrder  == 2
MaxPlots  == 1

(***************************************************************************)
(* float64 arithmetic.                                                     *)
(***************************************************************************)
Abs(n) == IF n < 0 THEN -n ELSE n

Sgn(n) == IF n < 0 THEN -1 ELSE IF n > 0 THEN 1 ELSE 0

RECURSIVE GCD(_, _)
GCD(a, b) == IF b = 0 THEN a ELSE GCD(b, a % b)

\* the float with value n/d, d # 0
Rat(n, d) ==
  LET g == GCD(Abs(n), Abs(d))
      s == IF d < 0 THEN -1 ELSE 1
  IN  << (s * n) \div g, (s * d) \div g >>

Flt(n) == << n, 1 >>
NaN    == << 0, 0 >>
Inf(s) == << s, 0 >>

IsFinite(a) == a[2] # 0
IsNaN(a)    == a = NaN

\* a + b, a - b, a * b on finite floats (polyfit and polyval only see finite
\* values: non-finite input is handled before, see PolyfitOutcomes)
FAdd(a, b) ==
  IF a[2] = b[2] /\ a[2] = 1 THEN << a[1] + b[1], 1 >>
  ELSE LET g == GCD(a[2], b[2])
       IN  Rat(a[1] * (b[2] \div g) + b[1] * (a[2] \div g),
               (a[2] \div g) * b[2])

FSub(a, b) == FAdd(a, << -b[1], b[2] >>)

FMul(a, b) ==
  IF a[2] = b[2] /\ a[2] = 1 THEN << a[1] * b[1], 1 >>
  ELSE LET g == GCD(Abs(a[1]), b[2])
           k == GCD(Abs(b[1]), a[2])
       IN  Rat((a[1] \div g) * (b[1] \div k), (a[2] \div k) * (b[2] \div g))

\* numpy true_divide on float64: division by zero gives inf or nan (with a
\* RuntimeWarning), never an exception
FDiv(a, b) ==
  IF IsNaN(a) \/ IsNaN(b) THEN NaN
  ELSE IF ~IsFinite(a) THEN (IF ~IsFinite(b) THEN NaN
                             ELSE Inf(a[1] * (IF b[1] < 0 THEN -1 ELSE 1)))
  ELSE IF ~IsFinite(b) THEN Flt(0)
  ELSE IF b[1] = 0 THEN (IF a[1] = 0 THEN NaN ELSE Inf(Sgn(a[1])))
  ELSE FMul(a, Rat(b[2], b[1]))


(***************************************************************************)
(* numpy arrays: a dtype and the sequence of the elements.                 *)
(***************************************************************************)
FloatArr(s) == [dtype |-> "float64", vals |-> s]
IntArr(s)   == [dtype |-> "int64", vals |-> [i \in 1..Len(s) |-> Flt(s[i])]]
Ints(s)     == [i \in 1..Len(s) |-> Flt(s[i])]

RECURSIVE SumSeq(_)
SumSeq(s) == IF s = << >> THEN Flt(0) ELSE FAdd(Head(s), SumSeq(Tail(s)))

RECURSIVE Pow(_, _)
Pow(x, j) == IF j = 0 THEN Flt(1) ELSE FMul(x, Pow(x, j - 1))

\* determinant by expansion along the first row
Minor(M, j) ==
  [r \in 1..(Len(M) - 1) |->
     [c \in 1..(Len(M) - 1) |-> M[r + 1][IF c < j THEN c ELSE c + 1]]]

RECURSIVE Det(_)
Det(M) ==
  IF Len(M) = 1 THEN M[1][1]
  ELSE SumSeq([j \in 1..Len(M) |->
                 FMul(FMul(Flt(IF j % 2 = 1 THEN 1 ELSE -1), M[1][j]),
                      Det(Minor(M, j)))])

\* the normal equations of the degree-e fit: (V^T V) c = V^T y, V[i][k] = x[i]^k
NormalLhs(x, e) ==
  [j \in 1..(e + 1) |->
     [k \in 1..(e + 1) |->
        SumSeq([i \in 1..Len(x) |-> Pow(x[i], (j - 1) + (k - 1))])]]

NormalRhs(x, y, e) ==
  [j \in 1..(e + 1) |->
     SumSeq([i \in 1..Len(x) |-> FMul(y[i], Pow(x[i], j - 1))])]

\* the solution of A c = b for nonsingular A (Cramer's rule)
Solve(A, b) ==
  CHOOSE c \in
    { [k \in 1..Len(A) |->
         FDiv(Det([r \in 1..Len(A) |->
                     [j \in 1..Len(A) |-> IF j = k THEN b[r] ELSE A[r][j]]]),
              detA)] : detA \in {Det(A)} } : TRUE

\* the rank of the Vandermonde matrix of x with deg + 1 columns
VanderRank(x, deg) ==
  LET d == Cardinality({x[i] : i \in 1..Len(x)})
  IN  IF deg + 1 < d THEN deg + 1 ELSE d

(***************************************************************************)
(* np.polyfit(x, y, deg) on finite x, y of equal length >= 1, deg >= 0:    *)
(* the coefficients, highest power first, of a least-squares polynomial.   *)
(* When the Vandermonde matrix is rank deficient (deg + 1 > number of      *)
(* distinct x) numpy only warns (RankWarning) and returns one minimiser;   *)
(* every minimiser takes the same values at the x[i], and clean only       *)
(* evaluates the polynomial there, so the minimiser of lowest degree       *)
(* stands for it.                                                          *)
(***************************************************************************)
polyfit(x, y, deg) ==
  LET e == VanderRank(x, deg) - 1
  IN  CHOOSE p \in
        { [k \in 1..(deg + 1) |->
             IF k <= deg - e THEN Flt(0) ELSE c[(deg + 1) - k + 1]] :
          c \in {Solve(NormalLhs(x, e), NormalRhs(x, y, e))} } : TRUE

\* np.polyval(p, x): Horner's scheme, y = y * x + pv for pv in p
RECURSIVE Horner(_, _, _)
Horner(p, xi, acc) ==
  IF p = << >> THEN acc ELSE Horner(Tail(p), xi, FAdd(FMul(acc, xi), Head(p)))

polyval(p, x) == [i \in 1..Len(x) |-> Horner(p, x[i], Flt(0))]


(***************************************************************************)
(* The state of a notebook session.                                        *)
(*   heap  the numpy arrays, by reference (index)                          *)
(*   lc    the LightCurve objects, by the variable that holds them         *)
(*   fig   what plot has asked the plotting library to draw                *)
(*   last  the last call, its outcome and the state it started from        *)
(*   done  the variables whose LightCurve has completed a clean            *)
(*   madeBy  the call that made each LightCurve: "__init__" or "from_txt"  *)
(*   nCleans, nPlots  the number of clean and plot calls so far            *)
(***************************************************************************)
VARIABLES heap, lc, fig, last, done, madeBy, nCleans, nPlots, disk, af, q

vars == << heap, lc, fig, last, done, madeBy, nCleans, nPlots,
           disk, af, q >>

\* the state of the other notebooks: the ASDF files on disk, the open
\* AsdfFile objects and the last Quantity computed
elsewhere == << disk, af, q >>

\* the absent value of an argument or attribute (Python's None)
None   == 0
NoName == "None"

\* the notebook's input arrays times, fluxes, uncertainties, flags
TimesRef == 1
FluxesRef == 2
UncertaintiesRef == 3
FlagsRef == 4

LcVars == {"lc0"}
Names  == {NoName, "proxima Centauri"}
Orders == (-1)..MaxOrder

Tenth == Rat(1, 10)

\* arrays a caller may hold for each argument of the constructor
TimesInputs == { FloatArr(Ints(<<0, 1, 2>>)) }
FluxesInputs ==
  { FloatArr(Ints(<<2, 1, 3>>)), FloatArr(Ints(<<1, 2>>)), IntArr(<<2, 1, 3>>) }
UncertaintiesInputs ==
  { FloatArr(<<Tenth, Tenth, Tenth>>), FloatArr(<<Tenth, Tenth>>),
    IntArr(<<1, 1, 1>>) }
FlagsInputs == { IntArr(<<0, 4, 1>>) }

\* a token of a text file that is not a number
BadToken == << 0, -1 >>

\* the contents of the text files a caller may load: lines of tokens
FileInputs ==
  { << Ints(<<0, 1>>), Ints(<<1, 2>>), <<Tenth, Tenth>>, Ints(<<0, 0>>) >>,
    << Ints(<<0, 1, 2>>), Ints(<<1, 1, 1>>), <<Tenth, Tenth, Tenth>>,
       Ints(<<0, 0, 0>>) >>,
    << Ints(<<0, 1, 2>>), Ints(<<2, 1, 3>>), <<Tenth, Rat(1, 5), Tenth>>,
       Ints(<<0, 1, 0>>) >>,
    << Ints(<<0, 1>>), Ints(<<1, -1>>), <<Tenth, Tenth>>, Ints(<<0, 0>>) >>,
    << Ints(<<0, 1>>), Ints(<<-1, -3>>), <<Tenth, Tenth>>, Ints(<<0, 2>>) >>,
    << Ints(<<0, 1>>), <<Flt(1), NaN>>, <<Tenth, Tenth>>, Ints(<<0, 0>>) >>,
    << Ints(<<0, 1>>), Ints(<<2, 2>>), <<Tenth, Rat(1, 5)>>, Ints(<<0, 0>>) >>,
    << Ints(<<0, 1, 2>>), Ints(<<0, 0, 1>>), <<Flt(0), Flt(0), Tenth>>,
       Ints(<<0, 0, 0>>) >>,
    << Ints(<<5>>), Ints(<<2>>), <<Tenth>>, Ints(<<0>>) >>,
    << Ints(<<0, 1>>), Ints(<<1, 2>>), <<Tenth, Tenth>> >>,
    << Ints(<<0, 1>>), Ints(<<1, 2>>), <<Tenth, Tenth>>, Ints(<<0, 0>>),
       Ints(<<7, 8>>) >>,
    << Ints(<<0, 1>>), Ints(<<1, 2, 3>>), <<Tenth, Tenth>>, Ints(<<0, 0>>) >>,
    << Ints(<<0, 1>>), <<Flt(1), BadToken>>, <<Tenth, Tenth>>, Ints(<<0, 0>>) >>,
    << Ints(<<0, 1, 2, 3>>) >>,
    << >> }

(***************************************************************************)
(* LightCurve.__init__: every argument is stored as given, cleaned = False *)
(***************************************************************************)
\* A faulty variant: fluxes and uncertainties are stored under each other's
\* name.
NewLightCurveSwapped(times, fluxes, uncertainties, flags, name) ==
  [times |-> times, fluxes |-> uncertainties, uncertainties |-> fluxes,
   flags |-> flags, name |-> name, cleaned |-> FALSE]

NewLightCurve(times, fluxes, uncertainties, flags, name) ==
  [times |-> times, fluxes |-> fluxes, uncertainties |-> uncertainties,
   flags |-> flags, name |-> name, cleaned |-> FALSE]

(***************************************************************************)
(* np.loadtxt(path): the lines are split into tokens and the tokens parsed *)
(* as floats; the result is the 2-d array of the lines with its axes of    *)
(* length one squeezed away (ndmin = 0).                                   *)
(***************************************************************************)
loadtxt(file) ==
  IF \E r \in 1..Len(file) : \E c \in 1..Len(file[r]) : file[r][c] = BadToken
    THEN [err |-> "ValueError", ndim |-> 0, rows |-> << >>]
  ELSE IF \E r \in 1..Len(file) : Len(file[r]) # Len(file[1])
    THEN [err |-> "ValueError", ndim |-> 0, rows |-> << >>]
  ELSE IF file = << >>
    THEN [err |-> "ok", ndim |-> 1, rows |-> << >>]
  ELSE [err |-> "ok",
        ndim |-> (IF Len(file) > 1 THEN 1 ELSE 0)
                 + (IF Len(file[1]) > 1 THEN 1 ELSE 0),
        rows |-> file]

\* the row of data that from_txt reads for each attribute
TimesRow == 1

\* a faulty variant: fluxes = data[0, :]
FluxesRowOfTimes == TimesRow

FluxesRow == 2
UncertaintiesRow == 3
FlagsRow == 4

\* data[i, :] for the four rows: IndexError on an array that is not 2-d or
\* has no such row
FromTxtOutcome(data) ==
  IF data.err # "ok" THEN data.err
  ELSE IF data.ndim # 2 THEN "IndexError"
  ELSE IF Len(data.rows) < FlagsRow THEN "IndexError"
  ELSE "ok"


(***************************************************************************)
(* LightCurve.clean(order).                                                *)
(***************************************************************************)
AllFinite(s) == \A i \in 1..Len(s) : IsFinite(s[i])

\* The ways np.polyfit(self.times, self.fluxes, order) can end.  Non-finite
\* data makes LAPACK's least-squares driver either fail to converge
\* (LinAlgError) or return nan coefficients, depending on the build.
PolyfitOutcomes(h, r, order) ==
  IF r.times = None \/ r.fluxes = None THEN {"TypeError"}
  ELSE IF order < 0 THEN {"ValueError"}
  ELSE IF Len(h[r.times].vals) = 0 THEN {"TypeError"}
  ELSE IF Len(h[r.times].vals) # Len(h[r.fluxes].vals) THEN {"TypeError"}
  ELSE IF ~(AllFinite(h[r.times].vals) /\ AllFinite(h[r.fluxes].vals))
    THEN {"LinAlgError", "nan"}
  ELSE {"ok"}

\* np.polyfit warns (RankWarning) when the fit is rank deficient
RankWarning(h, r, order) ==
  VanderRank(h[r.times].vals, order) # order + 1

\* best_fit_model = np.polyval(poly_params, self.times)
\* A faulty variant: the fit takes the fluxes as abscissa and the times as
\* ordinate.
BestFitModelSwapped(h, r, order, fit) ==
  IF fit = "nan" THEN [i \in 1..Len(h[r.times].vals) |-> NaN]
  ELSE polyval(polyfit(h[r.fluxes].vals, h[r.times].vals, order),
               h[r.times].vals)

\* A faulty variant: the model is the first flux at every time.
BestFitModelFirstFlux(h, r, order, fit) ==
  IF fit = "nan" THEN [i \in 1..Len(h[r.times].vals) |-> NaN]
  ELSE [i \in 1..Len(h[r.times].vals) |-> h[r.fluxes].vals[1]]

BestFitModel(h, r, order, fit) ==
  IF fit = "nan" THEN [i \in 1..Len(h[r.times].vals) |-> NaN]
  ELSE polyval(polyfit(h[r.times].vals, h[r.fluxes].vals, order),
               h[r.times].vals)

\* a /= model: "ok", or the exception raised before anything is written
DivideOutcome(h, ref, model) ==
  IF ref = None THEN "TypeError"
  ELSE IF h[ref].dtype # "float64" THEN "TypeError"
  ELSE IF Len(model) # Len(h[ref].vals) /\ Len(model) # 1 THEN "ValueError"
  ELSE "ok"

\* a faulty variant: every element is divided by the first value of the model
DivideByFirst(h, ref, model) ==
  [h EXCEPT ![ref].vals = [i \in 1..Len(@) |-> FDiv(@[i], model[1])]]

\* a /= model: the array is divided in place, element by element
DivideInPlace(h, ref, model) ==
  [h EXCEPT ![ref].vals =
     [i \in 1..Len(@) |-> FDiv(@[i], model[IF Len(model) = 1 THEN 1 ELSE i])]]

\* a faulty variant: clean forgets to set the flag
CleanedLeftFalse == FALSE

\* self.cleaned = True
CleanedAfterClean == TRUE

\* a faulty variant: cleaned is set before the divisions, so also when one of them
\* raises
NormalizeFlagFirst(h, r, model, warn) ==
  LET d1 == DivideOutcome(h, r.fluxes, model)
      h1 == DivideInPlace(h, r.fluxes, model)
      d2 == DivideOutcome(h1, r.uncertainties, model)
      h2 == DivideInPlace(h1, r.uncertainties, model)
  IN  IF d1 # "ok"
        THEN [heap |-> h, cleaned |-> TRUE, outcome |-> d1,
              warn |-> warn, model |-> model]
      ELSE IF d2 # "ok"
        THEN [heap |-> h1, cleaned |-> TRUE, outcome |-> d2,
              warn |-> warn, model |-> model]
      ELSE [heap |-> h2, cleaned |-> TRUE, outcome |-> "ok",
            warn |-> warn, model |-> model]

\* a faulty variant: the times are normalized along with the fluxes
NormalizeTimesToo(h, r, model, warn) ==
  LET d1 == DivideOutcome(h, r.fluxes, model)
      h1 == DivideInPlace(DivideInPlace(h, r.times, model), r.fluxes, model)
      d2 == DivideOutcome(h1, r.uncertainties, model)
      h2 == DivideInPlace(h1, r.uncertainties, model)
  IN  IF d1 # "ok"
        THEN [heap |-> h, cleaned |-> r.cleaned, outcome |-> d1,
              warn |-> warn, model |-> model]
      ELSE IF d2 # "ok"
        THEN [heap |-> h1, cleaned |-> r.cleaned, outcome |-> d2,
              warn |-> warn, model |-> model]
      ELSE [heap |-> h2, cleaned |-> TRUE, outcome |-> "ok",
            warn |-> warn, model |-> model]

\* The call once best_fit_model is known: [heap, cleaned, outcome, warn,
\* model] after the two divisions and the assignment to cleaned.
\* A faulty variant: only the fluxes are divided by the model.
NormalizeFluxesOnly(h, r, model, warn) ==
  LET d1 == DivideOutcome(h, r.fluxes, model)
      h1 == DivideInPlace(h, r.fluxes, model)
      d2 == DivideOutcome(h1, r.uncertainties, model)
  IN  IF d1 # "ok"
        THEN [heap |-> h, cleaned |-> r.cleaned, outcome |-> d1,
              warn |-> warn, model |-> model]
      ELSE IF d2 # "ok"
        THEN [heap |-> h1, cleaned |-> r.cleaned, outcome |-> d2,
              warn |-> warn, model |-> model]
      ELSE [heap |-> h1, cleaned |-> CleanedAfterClean, outcome |-> "ok",
            warn |-> warn, model |-> model]

Normalize(h, r, model, warn) ==
  LET d1 == DivideOutcome(h, r.fluxes, model)
      h1 == DivideInPlace(h, r.fluxes, model)
      d2 == DivideOutcome(h1, r.uncertainties, model)
      h2 == DivideInPlace(h1, r.uncertainties, model)
  IN  IF d1 # "ok"
        THEN [heap |-> h, cleaned |-> r.cleaned, outcome |-> d1,
              warn |-> warn, model |-> model]
      ELSE IF d2 # "ok"
        THEN [heap |-> h1, cleaned |-> r.cleaned, outcome |-> d2,
              warn |-> warn, model |-> model]
      ELSE [heap |-> h2, cleaned |-> CleanedAfterClean, outcome |-> "ok",
            warn |-> warn, model |-> model]

\* The whole call clean(order) on record r, where fit is the outcome of
\* np.polyfit: an exception of polyfit leaves everything as it was.
\* A faulty variant: clean does nothing to a record that is already cleaned.
CleanCallOnce(h, r, order, fit) ==
  IF r.cleaned
    THEN [heap |-> h, cleaned |-> r.cleaned, outcome |-> "ok",
          warn |-> FALSE, model |-> << >>]
  ELSE IF fit \notin {"ok", "nan"}
    THEN [heap |-> h, cleaned |-> r.cleaned, outcome |-> fit,
          warn |-> FALSE, model |-> << >>]
  ELSE CHOOSE res \in
         { Normalize(h, r, model, fit = "ok" /\ RankWarning(h, r, order)) :
           model \in {BestFitModel(h, r, order, fit)} } : TRUE

CleanCall(h, r, order, fit) ==
  IF fit \notin {"ok", "nan"}
    THEN [heap |-> h, cleaned |-> r.cleaned, outcome |-> fit,
          warn |-> FALSE, model |-> << >>]
  ELSE CHOOSE res \in
         { Normalize(h, r, model, fit = "ok" /\ RankWarning(h, r, order)) :
           model \in {BestFitModel(h, r, order, fit)} } : TRUE

(***************************************************************************)
(* LightCurve.plot(): one errorbar call, the two axis labels, the title.   *)
(* What the plotting library makes of absent or mismatched data is its     *)
(* own: the call may raise (at errorbar, before any label) or not.         *)
(***************************************************************************)
ValsOf(h, ref) == IF ref = None THEN << >> ELSE h[ref].vals

PlotOutcomes(h, r) ==
  IF /\ r.times # None /\ r.fluxes # None
     /\ Len(h[r.times].vals) = Len(h[r.fluxes].vals)
     /\ (r.uncertainties = None
           \/ Len(h[r.uncertainties].vals) = Len(h[r.fluxes].vals))
    THEN {"ok"}
    ELSE {"ok", "Error"}

NoFig ==
  [errorbars |-> 0, x |-> << >>, y |-> << >>, yerr |-> << >>,
   xlabel |-> "", ylabel |-> "", title |-> ""]

\* A faulty variant: the axis labels are exchanged.
PlotCallLabelsSwapped(f, h, r) ==
  [errorbars |-> f.errorbars + 1,
   x |-> ValsOf(h, r.times), y |-> ValsOf(h, r.fluxes),
   yerr |-> ValsOf(h, r.uncertainties),
   xlabel |-> "Flux", ylabel |-> "Time", title |-> r.name]

PlotCall(f, h, r) ==
  [errorbars |-> f.errorbars + 1,
   x |-> ValsOf(h, r.times), y |-> ValsOf(h, r.fluxes),
   yerr |-> ValsOf(h, r.uncertainties),
   xlabel |-> "Time", ylabel |-> "Flux", title |-> r.name]

(***************************************************************************)
(* The calls of a session.                                                 *)
(***************************************************************************)
Call(op, v, order, outcome, warn, model, file) ==
  [op |-> op, v |-> v, order |-> order, outcome |-> outcome, warn |-> warn,
   model |-> model, file |-> file, args |-> << >>,
   heap0 |-> heap, lc0 |-> lc]

NoCall ==
  [op |-> "start", v |-> "", order |-> 0, outcome |-> "ok",
   warn |-> FALSE, model |-> << >>, file |-> << >>, args |-> << >>,
   heap0 |-> << >>, lc0 |-> << >>]

\* jw['data'] = data; jw.write_to('example.asdf'): the file the ASDF
\* walkthrough starts from (a 2 x 2 array stands for the 5 x 6 one)
ExampleData == << <<1, 2>>, <<3, 4>> >>

ExampleDisk == [path \in {"example.asdf"} |-> ExampleData]

\* no Quantity has been computed
NoQuantity ==
  [value |-> NaN, unit |-> [name |-> "none", scale |-> NaN, dim |-> << 0, 0 >>]]

\* the notebook before any LightCurve is made, its input arrays being pool
Start(pool) ==
  /\ heap = pool
  /\ lc = << >>
  /\ fig = NoFig
  /\ last = NoCall
  /\ done = {}
  /\ madeBy = << >>
  /\ nCleans = 0
  /\ nPlots = 0
  /\ disk = ExampleDisk
  /\ af = << >>
  /\ q = NoQuantity

Init ==
  \E t \in TimesInputs, f \in FluxesInputs, u \in UncertaintiesInputs,
     g \in FlagsInputs :
    Start(<< t, f, u, g >>)

\* v = LightCurve(times=t, fluxes=f, uncertainties=u, flags=g, name=name)
\* for arguments drawn from the given sets
ConstructOf(v, T, F, U, G, N) ==
  /\ v \notin DOMAIN lc
  /\ \E t \in T, f \in F, u \in U, g \in G, name \in N :
       /\ lc' = lc @@ (v :> NewLightCurve(t, f, u, g, name))
       /\ last' = [Call("__init__", v, 0, "ok", FALSE, << >>, << >>)
                     EXCEPT !.args = << t, f, u, g, name >>]
  /\ madeBy' = madeBy @@ (v :> "__init__")
  /\ UNCHANGED << heap, fig, done, nCleans, nPlots, elsewhere >>

\* v = LightCurve(times=..., fluxes=..., uncertainties=..., flags=...,
\* name=...), every argument either omitted (None) or the notebook's array
\* of that name: the four sequences of a record are different array
\* objects, as at every construction in the notebook, and nothing compares
\* their lengths or dtypes
Construct(v) ==
  ConstructOf(v, {None, TimesRef}, {None, FluxesRef},
              {None, UncertaintiesRef}, {None, FlagsRef}, Names)

\* a faulty variant: from_txt fills the object in without __init__ and
\* leaves its name and cleaned attributes to a class-level default
FromTxtRecordNoInit(base) ==
  [times |-> base + TimesRow, fluxes |-> base + FluxesRow,
   uncertainties |-> base + UncertaintiesRow, flags |-> base + FlagsRow,
   name |-> "", cleaned |-> TRUE]

\* a faulty variant: from_txt names the LightCurve it returns.
FromTxtRecordNamed(base) ==
  [times |-> base + TimesRow, fluxes |-> base + FluxesRow,
   uncertainties |-> base + UncertaintiesRow, flags |-> base + FlagsRow,
   name |-> "proxima Centauri", cleaned |-> FALSE]

\* cls(times=times, fluxes=fluxes, uncertainties=uncertainties,
\* flags=flags): the rows are the arrays at base + 1 .. base + 4 and no
\* name is passed
FromTxtRecord(base) ==
  NewLightCurve(base + TimesRow, base + FluxesRow, base + UncertaintiesRow,
                base + FlagsRow, NoName)

\* a faulty variant: the rows are kept in one buffer shared by every
\* LightCurve that from_txt makes
RowBaseShared(h) == FlagsRef

\* the rows of data are new arrays, after those that exist
RowBase(h) == Len(h)

\* v = LightCurve.from_txt(path), the file at path being one of files
FromTxtOf(v, files) ==
  /\ v \notin DOMAIN lc
  /\ \E file \in files :
       LET data == loadtxt(file)
           out  == FromTxtOutcome(data)
       IN  /\ last' = Call("from_txt", v, 0, out, FALSE, << >>, file)
           /\ IF out = "ok"
                THEN /\ heap' = heap \o [i \in 1..4 |-> FloatArr(data.rows[i])]
                     /\ lc' = lc @@ (v :> FromTxtRecord(RowBase(heap)))
                     /\ madeBy' = madeBy @@ (v :> "from_txt")
                ELSE UNCHANGED << heap, lc, madeBy >>
  /\ UNCHANGED << fig, done, nCleans, nPlots, elsewhere >>

FromTxt(v) == FromTxtOf(v, FileInputs)

\* v.clean(order)
\* what a call of clean passes: nothing, or one order
OrderArgs == {<< >>} \cup { << order >> : order \in Orders }

\* a faulty variant: the default order is 0
DefaultOrderZero == 1 - 1

\* def clean(self, order=1)
DefaultOrder == 1

OrderUsed(arg) == IF arg = << >> THEN DefaultOrder ELSE arg[1]

Clean(v) ==
  /\ v \in DOMAIN lc
  /\ nCleans < MaxCleans
  /\ \E arg \in OrderArgs, order \in Orders :
       /\ order = OrderUsed(arg)
       /\ \E fit \in PolyfitOutcomes(heap, lc[v], order) :
            \E res \in {CleanCall(heap, lc[v], order, fit)} :
              /\ heap' = res.heap
              /\ lc' = [lc EXCEPT ![v].cleaned = res.cleaned]
              /\ last' = [Call("clean", v, order, res.outcome, res.warn,
                               res.model, << >>) EXCEPT !.args = arg]
              /\ done' = IF res.outcome = "ok" THEN done \cup {v} ELSE done
  /\ nCleans' = nCleans + 1
  /\ UNCHANGED << fig, madeBy, nPlots, elsewhere >>

\* a faulty variant: plot fills in the name it has put in the title
PlotNaming(v) ==
  /\ v \in DOMAIN lc
  /\ nPlots < MaxPlots
  /\ \E out \in PlotOutcomes(heap, lc[v]) :
       /\ fig' = IF out = "ok" THEN PlotCall(fig, heap, lc[v]) ELSE fig
       /\ last' = Call("plot", v, 0, out, FALSE, << >>, << >>)
  /\ lc' = [lc EXCEPT ![v].name = "Light curve"]
  /\ nPlots' = nPlots + 1
  /\ UNCHANGED << heap, done, madeBy, nCleans, elsewhere >>

\* v.plot()
Plot(v) ==
  /\ v \in DOMAIN lc
  /\ nPlots < MaxPlots
  /\ \E out \in PlotOutcomes(heap, lc[v]) :
       /\ fig' = IF out = "ok" THEN PlotCall(fig, heap, lc[v]) ELSE fig
       /\ last' = Call("plot", v, 0, out, FALSE, << >>, << >>)
  /\ nPlots' = nPlots + 1
  /\ UNCHANGED << heap, lc, done, madeBy, nCleans, elsewhere >>

Next ==
  \E v \in LcVars : Construct(v) \/ FromTxt(v) \/ Clean(v) \/ Plot(v)

Spec == Init /\ [][Next]_vars



(***************************************************************************)
(* Properties.                                                             *)
(***************************************************************************)
\* the record the last call was made on (or returned), now and before it
Rec == lc[last.v]
Pre == last.lc0[last.v]

Populated(r) ==
  r.times # None /\ r.fluxes # None /\ r.uncertainties # None /\ r.flags # None

Numeric(file) ==
  \A r \in 1..Len(file) : \A c \in 1..Len(file[r]) : file[r][c] # BadToken

\* a numeric table of four rows and N >= 1 columns
IsTable4(file) ==
  /\ Len(file) = 4
  /\ Len(file[1]) >= 1
  /\ \A r \in 1..Len(file) : Len(file[r]) = Len(file[1])
  /\ Numeric(file)

Returned == last.op = "from_txt" /\ last.outcome = "ok"

\* C1: for every valid numeric table of 4 rows and N >= 1 columns, from_txt
\* returns a record whose cleaned flag is false and whose times, fluxes,
\* uncertainties and flags each have length N.
C1_LoadsEveryTable ==
  (last.op = "from_txt" /\ IsTable4(last.file))
    => /\ Returned
       /\ last.v \in DOMAIN lc
       /\ ~Rec.cleaned
       /\ \A ref \in {Rec.times, Rec.fluxes, Rec.uncertainties, Rec.flags} :
            Len(heap[ref].vals) = Len(last.file[1])

\* C2: whenever from_txt returns a record, its times are row 0 of the
\* table, its fluxes row 1, its uncertainties row 2 and its flags row 3,
\* each with the elements in column order.
C2_RowsInOrder ==
  Returned =>
    /\ heap[Rec.times].vals = last.file[1]
    /\ heap[Rec.fluxes].vals = last.file[2]
    /\ heap[Rec.uncertainties].vals = last.file[3]
    /\ heap[Rec.flags].vals = last.file[4]

\* C2 witness: from_txt has returned a record for a table whose four rows
\* differ from each other.
C2_Witness ==
  /\ Returned
  /\ Cardinality({last.file[i] : i \in 1..4}) = 4
  /\ heap[Rec.fluxes].vals = last.file[2]

\* C3: from_txt fails, and returns no record, for every input that is not a
\* numeric table of exactly four rows.
C3_RejectsOtherShapes ==
  (last.op = "from_txt" /\ ~IsTable4(last.file))
    => last.outcome # "ok" /\ last.v \notin DOMAIN lc

\* the number of points of a record whose times are present
NPoints(h, r) == Len(h[r.times].vals)

\* C4: whenever clean(order = k) with 0 <= k < N returns, the record's
\* cleaned flag is true.
C4_CleanedAfterClean ==
  (last.op = "clean" /\ last.outcome = "ok"
     /\ 0 <= last.order /\ last.order < NPoints(last.heap0, Pre))
    => Rec.cleaned

\* C4 witness: a clean of order k with 1 <= k < N has returned on a record
\* that was not cleaned before.
C4_Witness ==
  /\ last.op = "clean" /\ last.outcome = "ok"
  /\ 1 <= last.order /\ last.order < NPoints(last.heap0, Pre)
  /\ ~Pre.cleaned
  /\ Rec.cleaned


\* sum over i of (y[i] - m[i]) * x[i]^j: the residual of the model m against
\* the j-th column of the Vandermonde matrix
Residual(x, y, m, j) ==
  SumSeq([i \in 1..Len(x) |-> FMul(FSub(y[i], m[i]), Pow(x[i], j))])

\* C5: a clean(order) that returns has fitted one least-squares polynomial
\* of that order to the times and fluxes it started from (the residual is
\* orthogonal to every power of the times up to the order), evaluated it at
\* every time, and replaced fluxes[i] by fluxes[i] / model[i] and
\* uncertainties[i] by uncertainties[i] / model[i] with those same model
\* values.
C5_DividesByOneModel ==
  (last.op = "clean" /\ last.outcome = "ok") =>
    LET x == last.heap0[Pre.times].vals
        y == last.heap0[Pre.fluxes].vals
        u == last.heap0[Pre.uncertainties].vals
        m == last.model
    IN  /\ Len(m) = Len(x)
        /\ (AllFinite(x) /\ AllFinite(y)) =>
             /\ m = polyval(polyfit(x, y, last.order), x)
             /\ \A j \in 0..last.order : Residual(x, y, m, j) = Flt(0)
        /\ Len(heap[Rec.fluxes].vals) = Len(y)
        /\ Len(heap[Rec.uncertainties].vals) = Len(u)
        /\ \A i \in 1..Len(y) : heap[Rec.fluxes].vals[i] = FDiv(y[i], m[i])
        /\ \A i \in 1..Len(u) :
             heap[Rec.uncertainties].vals[i] = FDiv(u[i], m[i])

\* C5 witness: a clean of order 1 on three points has returned, its model
\* takes different values at different times, and fluxes and uncertainties
\* are the old ones divided by it.
C5_Witness ==
  /\ last.op = "clean" /\ last.outcome = "ok" /\ last.order = 1
  /\ Len(last.model) = 3
  /\ last.model[1] # last.model[2]
  /\ heap[Rec.fluxes].vals[1]
       = FDiv(last.heap0[Pre.fluxes].vals[1], last.model[1])
  /\ heap[Rec.uncertainties].vals[2]
       = FDiv(last.heap0[Pre.uncertainties].vals[2], last.model[2])
  /\ heap[Rec.uncertainties].vals # last.heap0[Pre.uncertainties].vals

\* C6: clean(order) fails, and does not set cleaned, whenever the record
\* has fewer than order + 1 points or the fit is singular.
C6_FailsOnDegenerateFit ==
  (last.op = "clean" /\ Pre.times # None /\ Pre.fluxes # None
     /\ last.order >= 0
     /\ AllFinite(last.heap0[Pre.times].vals)
     /\ VanderRank(last.heap0[Pre.times].vals, last.order) < last.order + 1)
    => last.outcome # "ok" /\ Rec.cleaned = Pre.cleaned

\* C7: whenever clean fails, the record's fluxes, uncertainties and cleaned
\* flag equal their values before the call.
C7_NoPartialResult ==
  (last.op = "clean" /\ last.outcome # "ok") =>
    /\ ValsOf(heap, Rec.fluxes) = ValsOf(last.heap0, Pre.fluxes)
    /\ ValsOf(heap, Rec.uncertainties) = ValsOf(last.heap0, Pre.uncertainties)
    /\ Rec.cleaned = Pre.cleaned

\* C8: in every state, the times, fluxes, uncertainties and flags of a
\* populated LightCurve all have the same length.
C8_SameLengths ==
  \A v \in DOMAIN lc :
    Populated(lc[v]) =>
      \A a, b \in {lc[v].times, lc[v].fluxes, lc[v].uncertainties, lc[v].flags} :
        Len(heap[a].vals) = Len(heap[b].vals)

\* C9: the cleaned flag of a LightCurve is false from its construction until
\* its first clean that returns, and true in every state after that: in
\* every state it is true exactly when some clean of that LightCurve has
\* returned, so it never goes back to false.
C9_CleanedIffCleanReturned ==
  \A v \in DOMAIN lc : lc[v].cleaned <=> (v \in done)

\* C9 witness: a clean has failed on a LightCurve that an earlier clean had
\* completed on, and cleaned is still true.
C9_Witness ==
  /\ last.op = "clean" /\ last.outcome # "ok"
  /\ last.v \in done
  /\ Pre.cleaned /\ Rec.cleaned

\* C10: clean, whatever the order and however it ends, leaves the record's
\* times, flags and name as they were before the call.
C10_CleanKeepsTimesFlagsName ==
  last.op = "clean" =>
    /\ Rec.times = Pre.times /\ Rec.flags = Pre.flags /\ Rec.name = Pre.name
    /\ ValsOf(heap, Rec.times) = ValsOf(last.heap0, Pre.times)
    /\ ValsOf(heap, Rec.flags) = ValsOf(last.heap0, Pre.flags)

\* C10 witness: a clean has returned and changed the fluxes of a record
\* that has times, flags and a name.
C10_Witness ==
  /\ last.op = "clean" /\ last.outcome = "ok"
  /\ Rec.times # None /\ Rec.flags # None /\ Rec.name # NoName
  /\ heap[Rec.fluxes].vals # last.heap0[Pre.fluxes].vals
  /\ heap[Rec.times].vals = last.heap0[Pre.times].vals

\* C11: plot leaves the LightCurve unchanged: after plot, however it ends,
\* every LightCurve attribute (times, fluxes, uncertainties, flags, name,
\* cleaned) and every array is what it was before the call.
C11_PlotChangesNothing ==
  last.op = "plot" => (lc = last.lc0 /\ heap = last.heap0)

\* C11 witness: plot has drawn a LightCurve that a clean had completed on,
\* and its fluxes are still the cleaned ones that were drawn.
C11_Witness ==
  /\ last.op = "plot" /\ last.outcome = "ok"
  /\ Rec.cleaned /\ Rec.fluxes # None
  /\ fig.errorbars = 1
  /\ fig.y = heap[Rec.fluxes].vals

(***************************************************************************)
(* A session with two LightCurve variables, as in the notebook's batch     *)
(* loop over sample_lcs/*.txt and its repeated construction of prox_cen    *)
(* from the same four input arrays.                                        *)
(***************************************************************************)
PairVars == {"lc0", "prox_cen"}

PairPool ==
  << FloatArr(Ints(<<0, 1, 2>>)), FloatArr(Ints(<<2, 1, 3>>)),
     FloatArr(<<Tenth, Tenth, Tenth>>), IntArr(<<0, 4, 1>>) >>

PairFiles ==
  { << Ints(<<0, 1>>), Ints(<<1, 2>>), <<Tenth, Tenth>>, Ints(<<0, 0>>) >>,
    << Ints(<<0, 1, 2>>), Ints(<<2, 1, 3>>), <<Tenth, Rat(1, 5), Tenth>>,
       Ints(<<0, 1, 0>>) >>,
    << Ints(<<0, 1>>), Ints(<<1, -1>>), <<Tenth, Tenth>>, Ints(<<0, 0>>) >> }

InitPair == Start(PairPool)

NextPair ==
  \E v \in PairVars :
    \/ ConstructOf(v, {TimesRef}, {FluxesRef}, {None, UncertaintiesRef},
                   {FlagsRef}, {"proxima Centauri"})
    \/ FromTxtOf(v, PairFiles)
    \/ Clean(v)

SpecPair == InitPair /\ [][NextPair]_vars

\* C12: each LightCurve exclusively owns its sequences: a clean of one
\* LightCurve changes neither the fluxes and uncertainties seen through any
\* other LightCurve nor the caller's input arrays.
C12_ExclusiveOwnership ==
  last.op = "clean" =>
    /\ \A w \in DOMAIN lc \ {last.v} :
         /\ ValsOf(heap, lc[w].fluxes) = ValsOf(last.heap0, lc[w].fluxes)
         /\ ValsOf(heap, lc[w].uncertainties)
              = ValsOf(last.heap0, lc[w].uncertainties)
    /\ \A ref \in {TimesRef, FluxesRef, UncertaintiesRef, FlagsRef} :
         heap[ref] = last.heap0[ref]

\* The arrays of record r in heap h, moved to a heap that holds nothing
\* else, and the record that refers to them there.
PrivateHeap(h, r) ==
  << h[r.times], h[r.fluxes], h[r.uncertainties], h[r.flags] >>

PrivateRecord(r) ==
  [times |-> 1, fluxes |-> 2, uncertainties |-> 3, flags |-> 4,
   name |-> r.name, cleaned |-> r.cleaned]

\* C13: for LightCurves made by from_txt, a clean of one of them leaves every
\* other such LightCurve and its arrays as they were, and gives the cleaned
\* one exactly what the same clean gives it when it is the only LightCurve
\* in the program; so any order or interleaving of the cleans gives each
\* LightCurve the result of cleaning it alone.
C13_BatchCleanIndependent ==
  last.op = "clean" =>
    /\ \A w \in DOMAIN lc \ {last.v} :
         madeBy[w] = "from_txt" =>
           /\ lc[w] = last.lc0[w]
           /\ \A ref \in {lc[w].times, lc[w].fluxes,
                          lc[w].uncertainties, lc[w].flags} :
                heap[ref] = last.heap0[ref]
    /\ madeBy[last.v] = "from_txt" =>
         \E fit \in PolyfitOutcomes(PrivateHeap(last.heap0, Pre),
                                    PrivateRecord(Pre), last.order) :
           \E alone \in {CleanCall(PrivateHeap(last.heap0, Pre),
                                   PrivateRecord(Pre), last.order, fit)} :
             /\ alone.outcome = last.outcome
             /\ alone.cleaned = Rec.cleaned
             /\ alone.heap = PrivateHeap(heap, Rec)

\* C13 witness: two LightCurves made by from_txt from their own tables have
\* both been cleaned, one after the other.
C13_Witness ==
  /\ last.op = "clean"
  /\ last.outcome = "ok"
  /\ DOMAIN lc = PairVars
  /\ \A w \in PairVars : madeBy[w] = "from_txt"
  /\ done = PairVars
  /\ lc["lc0"].fluxes # lc["prox_cen"].fluxes

\* numpy's == on two float arrays: the same length and, at every index,
\* equal values neither of which is nan.
ArrayEqual(a, b) ==
  /\ Len(a) = Len(b)
  /\ \A i \in 1..Len(a) : ~IsNaN(a[i]) /\ a[i] = b[i]

\* The clean that has just returned was applied to a record that an earlier
\* clean had completed on.
CleanedAgain == last.op = "clean" /\ last.outcome = "ok" /\ Pre.cleaned

\* That clean fitted its model to the fluxes the earlier clean had left and
\* divided those fluxes and the uncertainties by it once more.
DividedAgain ==
  LET x == last.heap0[Pre.times].vals
      y == last.heap0[Pre.fluxes].vals
      u == last.heap0[Pre.uncertainties].vals
      m == last.model
  IN  /\ Len(m) = Len(y) /\ Len(m) = Len(u)
      /\ (AllFinite(x) /\ AllFinite(y)) =>
           m = polyval(polyfit(x, y, last.order), x)
      /\ heap[Rec.fluxes].vals = [i \in 1..Len(y) |-> FDiv(y[i], m[i])]
      /\ heap[Rec.uncertainties].vals = [i \in 1..Len(u) |-> FDiv(u[i], m[i])]

\* The second clean left the record as the first clean had left it.
TwiceIsOnce ==
  /\ ArrayEqual(heap[Rec.fluxes].vals, last.heap0[Pre.fluxes].vals)
  /\ ArrayEqual(heap[Rec.uncertainties].vals,
                last.heap0[Pre.uncertainties].vals)

\* C14: clean is not a no-op on an already cleaned record: it fits a new
\* model to the current fluxes and divides fluxes and uncertainties by it
\* again, and the record after the second clean equals the record after the
\* first only when the second model is 1 at every point.
C14_TwiceIsOnceOnlyIfModelIsOne ==
  CleanedAgain =>
    /\ DividedAgain
    /\ TwiceIsOnce => \A i \in 1..Len(last.model) : last.model[i] = Flt(1)

\* C14 as amended: ... only when the second model is 1 at every point whose
\* flux or uncertainty is not zero (a point with zero flux and zero
\* uncertainty is left as it is by any finite nonzero model value).
C14_TwiceIsOnceOnlyIfModelIsOneOffZero ==
  CleanedAgain =>
    /\ DividedAgain
    /\ TwiceIsOnce =>
         \A i \in 1..Len(last.model) :
           (last.heap0[Pre.fluxes].vals[i] # Flt(0)
              \/ last.heap0[Pre.uncertainties].vals[i] # Flt(0))
             => last.model[i] = Flt(1)

\* C14 witness: a second clean has returned and left the fluxes and
\* uncertainties as the first clean had left them; its model is 1 at a point
\* of nonzero flux and differs from 1 at a point of zero flux and zero
\* uncertainty.
C14_Witness ==
  /\ CleanedAgain
  /\ TwiceIsOnce
  /\ \E i \in 1..Len(last.model) :
       /\ last.model[i] = Flt(1)
       /\ last.heap0[Pre.fluxes].vals[i] # Flt(0)
  /\ \E i \in 1..Len(last.model) :
       /\ last.model[i] # Flt(1)
       /\ last.heap0[Pre.fluxes].vals[i] = Flt(0)
       /\ last.heap0[Pre.uncertainties].vals[i] = Flt(0)

\* The fluxes y are all equal to the finite nonzero value c.
ConstantFlux(y, c) ==
  /\ Len(y) >= 1
  /\ IsFinite(c) /\ c # Flt(0)
  /\ \A i \in 1..Len(y) : y[i] = c

\* C15: for a LightCurve loaded by from_txt whose fluxes all equal one
\* nonzero value c, a clean(order=0) that returns leaves every flux equal to
\* 1 and every uncertainty divided by c, and cleaned true; for c = 1 (the
\* table [[0,1,2],[1,1,1],[0.1,0.1,0.1],[0,0,0]]) the uncertainties are
\* unchanged.
C15_ConstantFluxOrderZero ==
  (last.op = "clean" /\ last.order = 0 /\ madeBy[last.v] = "from_txt") =>
    LET y == last.heap0[Pre.fluxes].vals
        u == last.heap0[Pre.uncertainties].vals
    IN  ConstantFlux(y, y[1]) =>
          /\ last.outcome = "ok"
          /\ heap[Rec.fluxes].vals = [i \in 1..Len(y) |-> Flt(1)]
          /\ heap[Rec.uncertainties].vals
               = [i \in 1..Len(u) |-> FDiv(u[i], y[1])]
          /\ y[1] = Flt(1) => heap[Rec.uncertainties].vals = u
          /\ Rec.cleaned

\* C15 witness: the table [[0,1,2],[1,1,1],[0.1,0.1,0.1],[0,0,0]] has been
\* loaded and cleaned with order 0; fluxes are [1,1,1], uncertainties
\* [0.1,0.1,0.1] and cleaned is true.
C15_Witness ==
  /\ last.op = "clean" /\ last.order = 0 /\ last.outcome = "ok"
  /\ madeBy[last.v] = "from_txt"
  /\ ~Pre.cleaned /\ Rec.cleaned
  /\ last.heap0[Pre.times].vals = Ints(<<0, 1, 2>>)
  /\ last.heap0[Pre.fluxes].vals = Ints(<<1, 1, 1>>)
  /\ heap[Rec.fluxes].vals = Ints(<<1, 1, 1>>)
  /\ heap[Rec.uncertainties].vals = <<Tenth, Tenth, Tenth>>
  /\ heap[Rec.flags].vals = Ints(<<0, 0, 0>>)

(***************************************************************************)
(* A session that writes a LightCurve's four sequences as the four rows of *)
(* a table and loads that table back with from_txt.  The notebook has no   *)
(* writer; the one here is the counterpart of np.loadtxt that the round    *)
(* trip needs: one row per sequence, one token per element, each token the *)
(* decimal text that reads back as exactly the float64 written (nan and    *)
(* inf as the words np.loadtxt accepts; an int64 element as its digits).   *)
(***************************************************************************)
RTVars == {"lc0", "prox_cen"}

RTPools ==
  { << FloatArr(Ints(<<0>>)), FloatArr(Ints(<<2>>)), FloatArr(<<Tenth>>),
       IntArr(<<0>>) >>,
    << FloatArr(Ints(<<0, 1>>)), FloatArr(Ints(<<1, 2>>)),
       FloatArr(<<Tenth, Rat(1, 5)>>), IntArr(<<0, 4>>) >>,
    PairPool }

FormatToken(a) == Rat(a[1], a[2])

WriteTable(h, r) ==
  [row \in 1..4 |->
     LET seq == h[<< r.times, r.fluxes, r.uncertainties, r.flags >>[row]].vals
     IN  [i \in 1..Len(seq) |-> FormatToken(seq[i])]]

RoundTrip(w) ==
  \E v \in DOMAIN lc :
    /\ Populated(lc[v])
    /\ FromTxtOf(w, {WriteTable(heap, lc[v])})

InitRT == \E pool \in RTPools : Start(pool)

NextRT ==
  \E v \in RTVars :
    \/ ConstructOf(v, {TimesRef}, {FluxesRef}, {UncertaintiesRef},
                   {FlagsRef}, Names)
    \/ Clean(v)
    \/ RoundTrip(v)

SpecRT == InitRT /\ [][NextRT]_vars

\* C16: round trip: when the table loaded by from_txt was written from a
\* LightCurve's times, fluxes, uncertainties and flags as its four rows,
\* from_txt returns a LightCurve whose four sequences equal that
\* LightCurve's, element by element.
C16_RoundTrip ==
  last.op = "from_txt" =>
    \A v \in DOMAIN last.lc0 :
      (Populated(last.lc0[v])
         /\ WriteTable(last.heap0, last.lc0[v]) = last.file) =>
        /\ last.outcome = "ok"
        /\ heap[Rec.times].vals = last.heap0[last.lc0[v].times].vals
        /\ heap[Rec.fluxes].vals = last.heap0[last.lc0[v].fluxes].vals
        /\ heap[Rec.uncertainties].vals
             = last.heap0[last.lc0[v].uncertainties].vals
        /\ heap[Rec.flags].vals = last.heap0[last.lc0[v].flags].vals

\* Every element of the sequence is a number that is at least zero.
NonNegative(u) == \A i \in 1..Len(u) : ~IsNaN(u[i]) /\ u[i][1] >= 0

\* C17: a clean that returns on a LightCurve whose uncertainties are all
\* non-negative leaves them all non-negative, so uncertainties that start
\* non-negative are non-negative in every reachable state.
C17_UncertaintiesNonNegative ==
  (last.op = "clean" /\ last.outcome = "ok"
     /\ NonNegative(last.heap0[Pre.uncertainties].vals))
    => NonNegative(heap[Rec.uncertainties].vals)

\* C18: a LightCurve made by from_txt has no name (None), in the state
\* from_txt returns it in and after any sequence of clean and plot calls.
C18_FromTxtHasNoName ==
  \A v \in DOMAIN lc : madeBy[v] = "from_txt" => lc[v].name = NoName

\* C18 witness: a LightCurve made by from_txt has been cleaned and then
\* plotted, its name is still None and None was drawn as the title.
C18_Witness ==
  /\ last.op = "plot" /\ last.outcome = "ok"
  /\ madeBy[last.v] = "from_txt"
  /\ last.v \in done
  /\ Rec.name = NoName
  /\ fig.title = NoName

\* The LightCurve that direct construction gives for the four rows of a
\* table and no name; the attributes hold the row arrays themselves.
DirectFromRows(file) ==
  NewLightCurve(FloatArr(file[TimesRow]), FloatArr(file[FluxesRow]),
                FloatArr(file[UncertaintiesRow]), FloatArr(file[FlagsRow]),
                NoName)

\* C19: the LightCurve that from_txt returns for a 4-row table equals, field
\* for field (times, fluxes, uncertainties, flags, name, cleaned), the
\* LightCurve that direct construction gives for the table's four rows and
\* no name.
C19_FromTxtEqualsDirect ==
  Returned =>
    \E direct \in {DirectFromRows(last.file)} :
      /\ heap[Rec.times] = direct.times
      /\ heap[Rec.fluxes] = direct.fluxes
      /\ heap[Rec.uncertainties] = direct.uncertainties
      /\ heap[Rec.flags] = direct.flags
      /\ Rec.name = direct.name
      /\ Rec.cleaned = direct.cleaned

\* C19 witness: from_txt has returned a LightCurve for a table of four rows
\* of three numbers; it is not cleaned and has no name, as a directly
\* constructed one.
C19_Witness ==
  /\ Returned
  /\ Len(last.file) = 4 /\ Len(last.file[1]) = 3
  /\ Rec.cleaned = FALSE /\ Rec.name = NoName
  /\ heap[Rec.uncertainties] = DirectFromRows(last.file).uncertainties

\* C20: direct construction stores each of times, fluxes, uncertainties,
\* flags and name as the attribute of the same name with the value passed
\* (the same object, not a copy), and stores None for every argument that
\* is omitted.
C20_StoresEachArgument ==
  last.op = "__init__" =>
    /\ Rec.times = last.args[1]
    /\ Rec.fluxes = last.args[2]
    /\ Rec.uncertainties = last.args[3]
    /\ Rec.flags = last.args[4]
    /\ Rec.name = last.args[5]

\* C20 witness: a LightCurve has been constructed with times, fluxes and a
\* name given and uncertainties and flags omitted.
C20_Witness ==
  /\ last.op = "__init__"
  /\ last.args = << TimesRef, FluxesRef, None, None, "proxima Centauri" >>
  /\ Rec.times = TimesRef /\ Rec.fluxes = FluxesRef
  /\ Rec.uncertainties = None /\ Rec.flags = None
  /\ Rec.name = "proxima Centauri"

\* C21: every plot that returns has issued exactly one error-bar drawing, of
\* the LightCurve's fluxes against its times with its uncertainties as
\* whiskers, has set the x label to 'Time' and the y label to 'Flux', and
\* has set the title to the LightCurve's name, None included.
C21_PlotDrawsOnce ==
  [][(nPlots' = nPlots + 1 /\ last'.outcome = "ok") =>
       /\ last'.op = "plot"
       /\ fig'.errorbars = fig.errorbars + 1
       /\ fig'.x = ValsOf(heap, lc[last'.v].times)
       /\ fig'.y = ValsOf(heap, lc[last'.v].fluxes)
       /\ fig'.yerr = ValsOf(heap, lc[last'.v].uncertainties)
       /\ fig'.xlabel = "Time"
       /\ fig'.ylabel = "Flux"
       /\ fig'.title = lc[last'.v].name]_vars

\* C21 witness: a LightCurve with no name, whose times, fluxes and
\* uncertainties are three different sequences, has been plotted: one
\* error-bar drawing, labels 'Time' and 'Flux', title None.
C21_Witness ==
  /\ last.op = "plot" /\ last.outcome = "ok"
  /\ Populated(Rec) /\ Rec.name = NoName
  /\ fig.errorbars = 1
  /\ fig.x = heap[Rec.times].vals
  /\ fig.y = heap[Rec.fluxes].vals
  /\ fig.yerr = heap[Rec.uncertainties].vals
  /\ Cardinality({fig.x, fig.y, fig.yerr}) = 3
  /\ fig.xlabel = "Time" /\ fig.ylabel = "Flux" /\ fig.title = NoName

(***************************************************************************)
(* The ASDF walkthrough: asdf.open in mode r (the default) or rw, element  *)
(* assignment to the data array, close and write_to.  The library maps the *)
(* array of an uncompressed block onto the file: read-only in mode r,      *)
(* writable in mode rw, where an assignment goes to the mapped file.       *)
(***************************************************************************)
Paths == {"example.asdf", "example_rw.asdf"}

AfNames == {"af", "af_rw"}

Modes == {"r", "rw"}

\* [0, 0] of the notebook and one other element, as row and column from 1
Elements == {<< 1, 1 >>, << 2, 2 >>}

NewValues == {100}

Bind(f, k, val) == [x \in DOMAIN f \cup {k} |-> IF x = k THEN val ELSE f[x]]

AsdfCall(op, h, outcome, a, b) ==
  [Call(op, h, 0, outcome, FALSE, << >>, << >>)
     EXCEPT !.args = << a, b, disk, af >>]

\* last.args[3] and last.args[4]: the files and the AsdfFile objects before
\* the last call of the ASDF walkthrough
Disk0 == last.args[3]
Af0 == last.args[4]

\* the data array as seen through the AsdfFile object named h
DataOf(d, a, h) == d[a[h].path]

\* a faulty variant: the array is writable in every mode
WritableAlways(mode) == mode \in Modes

Writable(mode) == mode = "rw"

\* af = asdf.open(path) / af_rw = asdf.open(path, mode='rw')
AsdfOpen(h, path, mode) ==
  /\ path \in DOMAIN disk
  /\ ~(h \in DOMAIN af /\ af[h].open)
  /\ af' = Bind(af, h, [path |-> path, mode |-> mode, open |-> TRUE,
                        refused |-> FALSE])
  /\ last' = AsdfCall("asdf.open", h, "ok", path, mode)
  /\ UNCHANGED << heap, lc, fig, done, madeBy, nCleans, nPlots, disk, q >>

\* af['data'][i, j] = val
SetData(h, el, val) ==
  /\ h \in DOMAIN af /\ af[h].open
  /\ IF Writable(af[h].mode)
       THEN /\ disk' = [disk EXCEPT ![af[h].path][el[1]][el[2]] = val]
            /\ af' = af
            /\ last' = AsdfCall("setitem", h, "ok", el, val)
       ELSE /\ disk' = disk
            /\ af' = [af EXCEPT ![h].refused = TRUE]
            /\ last' = AsdfCall("setitem", h, "ValueError", el, val)
  /\ UNCHANGED << heap, lc, fig, done, madeBy, nCleans, nPlots, q >>

\* af.close()
AsdfClose(h) ==
  /\ h \in DOMAIN af /\ af[h].open
  /\ af' = [af EXCEPT ![h].open = FALSE]
  /\ last' = AsdfCall("close", h, "ok", "", "")
  /\ UNCHANGED << heap, lc, fig, done, madeBy, nCleans, nPlots, disk, q >>

\* af_rw.write_to(path)
WriteTo(h, path) ==
  /\ h \in DOMAIN af /\ af[h].open
  /\ path # af[h].path
  /\ \A g \in DOMAIN af : af[g].open => af[g].path # path
  /\ disk' = Bind(disk, path, DataOf(disk, af, h))
  /\ last' = AsdfCall("write_to", h, "ok", path, "")
  /\ UNCHANGED << heap, lc, fig, done, madeBy, nCleans, nPlots, af, q >>

InitAsdf == Start(<< >>)

NextAsdf ==
  \E h \in AfNames :
    \/ \E path \in Paths, mode \in Modes : AsdfOpen(h, path, mode)
    \/ \E el \in Elements, val \in NewValues : SetData(h, el, val)
    \/ AsdfClose(h)
    \/ \E path \in Paths : WriteTo(h, path)

SpecAsdf == InitAsdf /\ [][NextAsdf]_vars

Unit(name, scale, length, time) ==
  [name |-> name, scale |-> scale, dim |-> << length, time >>]

Units ==
  { Unit("m", Flt(1), 1, 0), Unit("km", Flt(1000), 1, 0),
    Unit("cm", Rat(1, 100), 1, 0), Unit("s", Flt(1), 0, 1),
    Unit("km / s", Flt(1000), 1, -1), Unit("m / s", Flt(1), 1, -1) }

Quantity(value, unit) == [value |-> value, unit |-> unit]

\* 3 * u.km and the like on the left, 5 * u.cm and the like on the right
LeftOperands == { Quantity(Flt(3), unit) : unit \in Units }

RightOperands == { Quantity(Flt(5), unit) : unit \in Units }

\* a faulty variant: only identical units can be combined
Identical(u1, u2) == u1.name = u2.name

Compatible(u1, u2) == u1.dim = u2.dim

\* b.to(unit).value
ConvertedValue(b, unit) == FMul(b.value, FDiv(b.unit.scale, unit.scale))

\* a + b (sign 1) and a - b (sign -1)
Combine(a, b, sign) ==
  IF Compatible(a.unit, b.unit)
    THEN [outcome |-> "ok",
          q |-> Quantity(FAdd(a.value,
                              FMul(Flt(sign), ConvertedValue(b, a.unit))),
                         a.unit)]
    ELSE [outcome |-> "UnitConversionError", q |-> NoQuantity]

\* (3 * u.km) + (5 * u.cm)
Add(a, b) ==
  \E res \in {Combine(a, b, 1)} :
    /\ q' = IF res.outcome = "ok" THEN res.q ELSE q
    /\ last' = [Call("add", "", 0, res.outcome, FALSE, << >>, << >>)
                  EXCEPT !.args = << a, b, q >>]
    /\ UNCHANGED << heap, lc, fig, done, madeBy, nCleans, nPlots, disk, af >>

\* the same with -
Subtract(a, b) ==
  \E res \in {Combine(a, b, -1)} :
    /\ q' = IF res.outcome = "ok" THEN res.q ELSE q
    /\ last' = [Call("subtract", "", 0, res.outcome, FALSE, << >>, << >>)
                  EXCEPT !.args = << a, b, q >>]
    /\ UNCHANGED << heap, lc, fig, done, madeBy, nCleans, nPlots, disk, af >>

InitUnits == Start(<< >>)

NextUnits ==
  \E a \in LeftOperands, b \in RightOperands : Add(a, b) \/ Subtract(a, b)

SpecUnits == InitUnits /\ [][NextUnits]_vars

\* the physical kinds of the units of the walkthrough
Lengths == {"m", "km", "cm"}
Times == {"s"}
Speeds == {"km / s", "m / s"}

SameKind(u1, u2) ==
  \E kind \in {Lengths, Times, Speeds} : u1.name \in kind /\ u2.name \in kind

\* the quantity in the SI unit of its dimension
InSI(x) == FMul(x.value, x.unit.scale)

C24_FiniteAfterClean ==
  (last.op = "clean" /\ last.outcome = "ok"
     /\ AllFinite(last.heap0[Pre.fluxes].vals)
     /\ AllFinite(last.heap0[Pre.uncertainties].vals))
    => /\ AllFinite(heap[Rec.fluxes].vals)
       /\ AllFinite(heap[Rec.uncertainties].vals)

\* C25: clean preserves the ratio of flux to uncertainty at every point:
\* for every index i where the model value is a nonzero number (and the
\* ratio before the clean is a number), fluxes[i] / uncertainties[i] after a
\* clean that returns equals fluxes[i] / uncertainties[i] before it,
\* whatever the order and whether or not the LightCurve was cleaned before.
C25_RatioPreserved ==
  (last.op = "clean" /\ last.outcome = "ok") =>
    LET y == last.heap0[Pre.fluxes].vals
        u == last.heap0[Pre.uncertainties].vals
        m == last.model
    IN  \A i \in 1..Len(m) :
          (/\ i <= Len(y) /\ i <= Len(u)
           /\ IsFinite(m[i]) /\ m[i] # Flt(0)
           /\ IsFinite(y[i]) /\ IsFinite(u[i]) /\ u[i] # Flt(0))
            => FDiv(heap[Rec.fluxes].vals[i], heap[Rec.uncertainties].vals[i])
                 = FDiv(y[i], u[i])

\* C25 witness: a second clean, of order 1, has returned on a LightCurve
\* with three points; its model differs from point to point and from 1, the
\* fluxes and uncertainties have changed, and the ratio at the first point
\* is what it was.
C25_Witness ==
  /\ last.op = "clean" /\ last.outcome = "ok" /\ last.order = 1
  /\ Pre.cleaned
  /\ Len(last.model) = 3
  /\ AllFinite(last.model)
  /\ last.model[1] # last.model[2]
  /\ last.model[1] \notin {Flt(0), Flt(1)}
  /\ heap[Rec.uncertainties].vals[1] # last.heap0[Pre.uncertainties].vals[1]
  /\ IsFinite(last.heap0[Pre.fluxes].vals[1])
  /\ last.heap0[Pre.fluxes].vals[1] # Flt(0)
  /\ FDiv(heap[Rec.fluxes].vals[1], heap[Rec.uncertainties].vals[1])
       = FDiv(last.heap0[Pre.fluxes].vals[1],
              last.heap0[Pre.uncertainties].vals[1])

\* The mean of a sequence of at least one number.
Mean(y) == FDiv(SumSeq(y), Flt(Len(y)))

\* C26: for order 0 the model is the mean of the fluxes at every time; so a
\* clean(order=0) that returns on a LightCurve whose mean flux is nonzero
\* leaves fluxes whose sum is N (mean 1), and a clean(order=0) of fluxes
\* whose mean is already 1, as a first clean(order=0) leaves them, changes
\* neither fluxes nor uncertainties.
C26_OrderZeroIsMean ==
  (/\ last.op = "clean" /\ last.outcome = "ok" /\ last.order = 0
   /\ AllFinite(last.heap0[Pre.times].vals)
   /\ AllFinite(last.heap0[Pre.fluxes].vals)) =>
    LET y == last.heap0[Pre.fluxes].vals
        u == last.heap0[Pre.uncertainties].vals
    IN  /\ Len(last.model) = Len(y)
        /\ \A i \in 1..Len(y) : last.model[i] = Mean(y)
        /\ Mean(y) # Flt(0) =>
             SumSeq(heap[Rec.fluxes].vals) = Flt(Len(y))
        /\ Mean(y) = Flt(1) =>
             /\ heap[Rec.fluxes].vals = y
             /\ heap[Rec.uncertainties].vals = u

\* C26 witness: clean(order=0) has returned a second time on a LightCurve
\* whose fluxes differ from point to point; their sum is N before and after
\* and nothing has changed.
C26_Witness ==
  /\ last.op = "clean" /\ last.outcome = "ok" /\ last.order = 0
  /\ Pre.cleaned
  /\ Len(last.model) = 3
  /\ heap[Rec.fluxes].vals[1] # heap[Rec.fluxes].vals[2]
  /\ SumSeq(last.heap0[Pre.fluxes].vals) = Flt(3)
  /\ SumSeq(heap[Rec.fluxes].vals) = Flt(3)
  /\ heap[Rec.fluxes].vals = last.heap0[Pre.fluxes].vals
  /\ heap[Rec.uncertainties].vals = last.heap0[Pre.uncertainties].vals

\* C27: clean called with no argument uses polynomial order 1: its outcome
\* and its effect on the LightCurve are those of clean(order=1) on the same
\* LightCurve.
C27_DefaultOrderIsOne ==
  (last.op = "clean" /\ last.args = << >>) =>
    \E fit \in PolyfitOutcomes(last.heap0, Pre, 1) :
      \E one \in {CleanCall(last.heap0, Pre, 1, fit)} :
        /\ one.outcome = last.outcome
        /\ one.heap = heap
        /\ one.cleaned = Rec.cleaned
        /\ one.model = last.model

\* C27 witness: clean() with no argument has returned on a LightCurve with
\* three points; the model it divided by is a line that is not constant.
C27_Witness ==
  /\ last.op = "clean" /\ last.args = << >> /\ last.outcome = "ok"
  /\ Len(last.model) = 3
  /\ AllFinite(last.model)
  /\ last.model[1] # last.model[2]
  /\ FSub(last.model[2], last.model[1]) = FSub(last.model[3], last.model[2])
  /\ heap[Rec.fluxes].vals # last.heap0[Pre.fluxes].vals
  /\ Rec.cleaned

=============================================================================
